---- MODULE Spec2Model ----
(***************************************************************************)
(* Model of the pumasi server: the task lifecycle routes, the transaction  *)
(* handshake routes, the conversation, message, rating and chat routes and *)
(* the deletion of a community of server/routes.ts over the storage layer  *)
(* (DatabaseStorage).                                                      *)
(*                                                                         *)
(* The model follows ONE community, ONE task id in it, the transaction row *)
(* created for it, the conversations, messages and ratings on it and the   *)
(* rating column of ONE rated user.  Every handler addresses its rows by   *)
(* id, so requests for other ids leave the rows followed here untouched.   *)
(***************************************************************************)
EXTENDS Integers, FiniteSets, Sequences, TLC

(***************************************************************************)
(* Bounds of the model.                                                    *)
(***************************************************************************)
NumUsers == 3
MaxClock == 1
MaxConversations == 2
MaxMessages == 2
MaxRatings == 2

Users == 1..NumUsers

(***************************************************************************)
(* Values.  NoUser is SQL NULL / JSON null in a user column, Absent is a   *)
(* key that the JSON body does not carry, NoTime is a NULL timestamp.      *)
(***************************************************************************)
NoUser == 0
Absent == -1
NoTime == -1
AbsentStatus == "absent"
\* The reward of a task (decimal(10,2)); NoAmount is the amount of no row.
Rewards == {10000, 15000}
NoAmount == 0

TaskStatuses == {"open", "accepted", "in_progress", "completed", "cancelled"}
TxnStatuses == {"pending", "start_requested", "in_progress", "completed", "cancelled"}

\* HTTP status codes the handlers answer with.
HttpOk == 200
HttpBadRequest == 400
HttpForbidden == 403
HttpNotFound == 404
HttpServerError == 500
\* A request for which registerRoutes defines no handler.
NoRoute == 0

VARIABLES
    community,      \* the communities row of the task's community
    members,        \* users with a communityMembers row for the task's community
    task,           \* the tasks row followed by the model (exists = FALSE: no row)
    transaction,    \* the transactions row of the task (exists = FALSE: no row)
    duplicated,     \* a further transactions row with the task's id has been inserted
    conversations,  \* the conversations rows of the task
    messages,       \* the messages rows of the task and of its conversations
    ratings,        \* the ratings rows of the task, all for the rated user
    rating,         \* users.rating of the rated user, in hundredths
    pending,        \* per user: the handler that awaits its storage write
    clock,          \* what new Date() returns
    http,           \* the last request answered and its response
    returned,       \* the conversation row in the body of that response
    listed,         \* the list in the body of that response
    sent            \* the event broadcast to the WebSocket clients with that response

vars == <<community, members, task, transaction, duplicated, conversations, messages,
          ratings, rating, pending, clock, http, returned, listed, sent>>

(***************************************************************************)
(* Rows of shared/schema.ts.                                               *)
(***************************************************************************)
NoTask ==
    [exists |-> FALSE, status |-> "open", authorId |-> NoUser, helperId |-> NoUser,
     reward |-> NoAmount]

NoTransaction ==
    [exists |-> FALSE, payerId |-> NoUser, payeeId |-> NoUser, amount |-> NoAmount,
     status |-> "pending",
     payerStartRequested |-> FALSE, payeeStartRequested |-> FALSE,
     payerConfirmed |-> FALSE, payeeConfirmed |-> FALSE, completedAt |-> NoTime]

\* A PATCH /api/tasks/:id body: any subset of the keys helperId, status, authorId.
TaskPatches ==
    [helperId : Users \cup {NoUser, Absent},
     status   : TaskStatuses \cup {AbsentStatus},
     authorId : Users \cup {Absent}]

Idle == [op |-> "idle"]

Answer(op, actor, helperId, code) ==
    [op |-> op, actor |-> actor, helperId |-> helperId, code |-> code]

\* NULL in an id column; the id of the task the model follows.
NoId == 0
TaskId == 1

\* No conversation row in the response body; no event broadcast.
NoConversation == [id |-> 0, authorId |-> NoUser, participantId |-> NoUser]
NoEvent == [type |-> "none"]

\* What the task routes and the transaction routes leave alone.
chatVars == <<conversations, returned>>
otherVars == <<community, messages, ratings, rating, listed>>

(***************************************************************************)
(* Storage layer.                                                          *)
(***************************************************************************)
isCommunityMember(userId) == userId \in members

\* insertTaskSchema omits status and helperId: the row gets the column defaults.
createTask(authorId, reward) ==
    [exists |-> TRUE, status |-> "open", authorId |-> authorId, helperId |-> NoUser,
     reward |-> reward]

\* UPDATE tasks SET {...updates}: every key the body carries overwrites its column.
updateTask(row, updates) ==
    [row EXCEPT
        !.helperId = IF updates.helperId = Absent THEN @ ELSE updates.helperId,
        !.status   = IF updates.status = AbsentStatus THEN @ ELSE updates.status,
        !.authorId = IF updates.authorId = Absent THEN @ ELSE updates.authorId]

(***************************************************************************)
(* Task routes.                                                            *)
(***************************************************************************)
\* POST /api/tasks; valid: the body passes insertTaskSchema.parse, and
\* reward is the reward it carries.
\* The model follows the first task created; later POSTs insert other rows.
PostTask(u, valid, reward) ==
    /\ IF ~isCommunityMember(u)
       THEN /\ http' = Answer("post", u, Absent, HttpForbidden)
            /\ UNCHANGED task
       ELSE IF ~valid
       THEN /\ http' = Answer("post", u, Absent, HttpServerError)
            /\ UNCHANGED task
       ELSE /\ http' = Answer("post", u, Absent, HttpOk)
            /\ task' = IF task.exists THEN task ELSE createTask(u, reward)
    /\ sent' = NoEvent
    /\ UNCHANGED <<members, transaction, duplicated, pending, clock>>
    /\ UNCHANGED chatVars
    /\ UNCHANGED otherVars

\* Mutant of SelfAccept: the guard compares with the wrong column.
SelfAcceptWrongColumn(row, body) ==
    body.helperId \in Users /\ body.helperId = row.helperId

\* "Prevent author from accepting their own task"
SelfAccept(row, body) ==
    body.helperId \in Users /\ body.helperId = row.authorId

\* "Only author can update task details, helper can accept"
PatchUnauthorized(row, u, body) ==
    row.authorId # u /\ body.helperId # u

PatchTaskCode(row, u, body) ==
    IF ~row.exists THEN HttpNotFound
    ELSE IF SelfAccept(row, body) THEN HttpBadRequest
    ELSE IF PatchUnauthorized(row, u, body) THEN HttpForbidden
    ELSE HttpOk

\* PATCH /api/tasks/:id
PatchTask(u, body) ==
    /\ http' = Answer("patch", u, body.helperId, PatchTaskCode(task, u, body))
    /\ task' = IF PatchTaskCode(task, u, body) = HttpOk
               THEN updateTask(task, body)
               ELSE task
    /\ sent' = NoEvent
    /\ UNCHANGED <<members, transaction, duplicated, pending, clock>>
    /\ UNCHANGED chatVars
    /\ UNCHANGED otherVars

\* Mutant of Cancellable: an in_progress task can be cancelled too.
CancellableInProgress(status) == status \in {"open", "accepted", "in_progress"}

\* "Can only cancel if task is open or accepted"
Cancellable(status) == status \in {"open", "accepted"}

DeleteTaskCode(row, u) ==
    IF ~row.exists THEN HttpNotFound
    ELSE IF row.authorId # u THEN HttpForbidden
    ELSE IF ~Cancellable(row.status) THEN HttpBadRequest
    ELSE HttpOk

\* DELETE /api/tasks/:id
DeleteTask(u) ==
    /\ http' = Answer("delete", u, Absent, DeleteTaskCode(task, u))
    /\ task' = IF DeleteTaskCode(task, u) = HttpOk
               THEN updateTask(task, [helperId |-> Absent, status |-> "cancelled",
                                      authorId |-> Absent])
               ELSE task
    /\ sent' = NoEvent
    /\ UNCHANGED <<members, transaction, duplicated, pending, clock>>
    /\ UNCHANGED chatVars
    /\ UNCHANGED otherVars

(***************************************************************************)
(* The task lifecycle: any authenticated user sends any request.  Every    *)
(* user but the last has joined the task's community.                      *)
(***************************************************************************)
InitTask ==
    /\ community = [exists |-> TRUE, creatorId |-> 1]
    /\ members = Users \ {NumUsers}
    /\ task = NoTask
    /\ transaction = NoTransaction
    /\ duplicated = FALSE
    /\ conversations = {}
    /\ messages = {}
    /\ ratings = <<>>
    /\ rating = 0
    /\ pending = [u \in Users |-> Idle]
    /\ clock = 0
    /\ http = Answer("none", NoUser, Absent, NoRoute)
    /\ returned = NoConversation
    /\ listed = <<>>
    /\ sent = NoEvent

NextTask ==
    \/ \E u \in Users, valid \in BOOLEAN, reward \in Rewards : PostTask(u, valid, reward)
    \/ \E u \in Users, body \in TaskPatches : PatchTask(u, body)
    \/ \E u \in Users : DeleteTask(u)

SpecTask == InitTask /\ [][NextTask]_vars

(***************************************************************************)
(* Transaction storage.  An updates object carries only some columns: it   *)
(* is a function whose domain is the set of keys it carries.               *)
(***************************************************************************)
\* The handshake requests name the task; the model follows the case where the
\* row returned for it is the row followed here.
getTaskTransaction == transaction

\* Mutant of createTransaction: the two parties are stored the wrong way round.
createTransactionSwapped(payerId, payeeId, amount) ==
    [NoTransaction EXCEPT !.exists = TRUE, !.payerId = payeeId, !.payeeId = payerId,
                          !.amount = amount, !.status = "pending"]

\* INSERT with status 'pending'; the other columns take the schema defaults.
createTransaction(payerId, payeeId, amount) ==
    [NoTransaction EXCEPT !.exists = TRUE, !.payerId = payerId, !.payeeId = payeeId,
                          !.amount = amount, !.status = "pending"]

\* Mutant of updateTransaction: the row is rebuilt from the column defaults
\* and the updates, so columns the updates do not carry are reset.
updateTransactionReset(row, updates) ==
    [k \in DOMAIN row |->
        IF k \in DOMAIN updates THEN updates[k]
        ELSE IF k \in {"exists", "payerId", "payeeId", "amount"} THEN row[k]
        ELSE NoTransaction[k]]

\* UPDATE transactions SET updates WHERE id: only the carried columns change,
\* and when no row has the id no row changes and nothing is thrown.
updateTransaction(row, updates) ==
    IF row.exists
    THEN [k \in DOMAIN row |-> IF k \in DOMAIN updates THEN updates[k] ELSE row[k]]
    ELSE row

\* JavaScript truthiness of updates[k], undefined when the key is not carried.
Truthy(updates, k) == k \in DOMAIN updates /\ updates[k]

(***************************************************************************)
(* Transaction routes.  storage.updateTransaction is awaited: a handler    *)
(* takes two steps, the read that computes its updates object and the      *)
(* write.                                                                  *)
(***************************************************************************)
\* A POST /api/tasks/:id/transaction body: the handler never reads req.body.
TransactionBodies == [status : {AbsentStatus, "completed"}]

\* POST /api/tasks/:id/transaction.  The handler looks for no existing row and
\* the table has no unique constraint on task_id: every call that reaches the
\* insert adds a row.  The model follows the first one.
PostTransaction(u, body) ==
    /\ IF ~task.exists
       THEN /\ http' = Answer("createTransaction", u, Absent, HttpNotFound)
            /\ UNCHANGED <<transaction, duplicated>>
       ELSE IF task.helperId = NoUser
       THEN \* payee_id is NOT NULL: the insert throws
            /\ http' = Answer("createTransaction", u, Absent, HttpServerError)
            /\ UNCHANGED <<transaction, duplicated>>
       ELSE /\ http' = Answer("createTransaction", u, Absent, HttpOk)
            /\ transaction' = IF transaction.exists THEN transaction
                              ELSE createTransaction(task.authorId, task.helperId,
                                                     task.reward)
            /\ duplicated' = (transaction.exists \/ duplicated)
    /\ sent' = NoEvent
    /\ UNCHANGED <<members, task, pending, clock>>
    /\ UNCHANGED chatVars
    /\ UNCHANGED otherVars

\* Mutant of Role: the second comparison is dropped, whoever is not the
\* payer is taken for the payee.
RoleUnchecked(row, u) ==
    IF row.payerId = u THEN "payer" ELSE "payee"

\* userRole of the start-request and confirm handlers.
Role(row, u) ==
    IF row.payerId = u THEN "payer"
    ELSE IF row.payeeId = u THEN "payee"
    ELSE "none"

\* Mutant of StartStatus: the flag looked up in the row is the caller's own,
\* not the other party's.
StartStatusOwnFlag(row, flags) ==
    IF \/ Truthy(flags, "payerStartRequested") /\ row.payerStartRequested
       \/ Truthy(flags, "payeeStartRequested") /\ row.payeeStartRequested
    THEN "in_progress"
    ELSE "start_requested"

\* "If both requested, start transaction"
StartStatus(row, flags) ==
    IF \/ Truthy(flags, "payerStartRequested") /\ row.payeeStartRequested
       \/ Truthy(flags, "payeeStartRequested") /\ row.payerStartRequested
    THEN "in_progress"
    ELSE "start_requested"

\* The updates object of the start-request handler.
StartUpdates(row, role) ==
    LET flags == IF role = "payer"
                 THEN [payerStartRequested |-> TRUE]
                 ELSE [payeeStartRequested |-> TRUE]
    IN  flags @@ [status |-> StartStatus(row, flags)]

\* PATCH /api/transactions/:id/start-request, up to the await of the update
StartRead(u) ==
    /\ pending[u] = Idle
    /\ LET row == getTaskTransaction
       IN  IF ~row.exists
           THEN /\ http' = Answer("start", u, Absent, HttpNotFound)
                /\ sent' = NoEvent
                /\ UNCHANGED pending
           ELSE IF Role(row, u) = "none"
           THEN /\ http' = Answer("start", u, Absent, HttpForbidden)
                /\ sent' = NoEvent
                /\ UNCHANGED pending
           ELSE /\ pending' = [pending EXCEPT ![u] =
                                 [op |-> "start",
                                  updates |-> StartUpdates(row, Role(row, u)),
                                  otherUserId |-> IF Role(row, u) = "payer"
                                                  THEN row.payeeId ELSE row.payerId]]
                /\ UNCHANGED <<http, sent>>
    /\ UNCHANGED <<members, task, transaction, duplicated, clock>>
    /\ UNCHANGED chatVars
    /\ UNCHANGED otherVars

\* The transaction_start_request event sent to every open WebSocket client.
StartEvent(u, otherUserId, updates) ==
    [type |-> "transaction_start_request", requestedBy |-> u,
     otherUserId |-> otherUserId, bothRequested |-> (updates.status = "in_progress")]

\* ... and from the update to the broadcast and the response
StartWrite(u) ==
    /\ pending[u].op = "start"
    /\ transaction' = updateTransaction(transaction, pending[u].updates)
    /\ pending' = [pending EXCEPT ![u] = Idle]
    /\ http' = Answer("start", u, Absent, HttpOk)
    /\ sent' = StartEvent(u, pending[u].otherUserId, pending[u].updates)
    /\ UNCHANGED <<members, task, duplicated, clock>>
    /\ UNCHANGED chatVars
    /\ UNCHANGED otherVars

\* The update throws (the database is unreachable): nothing is stored, the
\* catch answers 500 and the broadcast is not reached.
StartFail(u) ==
    /\ pending[u].op = "start"
    /\ pending' = [pending EXCEPT ![u] = Idle]
    /\ http' = Answer("start", u, Absent, HttpServerError)
    /\ sent' = NoEvent
    /\ UNCHANGED <<members, task, transaction, duplicated, clock>>
    /\ UNCHANGED chatVars
    /\ UNCHANGED otherVars

\* Mutant of BothConfirmed: one party's confirmation is enough.
BothConfirmedAlone(row, flags) ==
    \/ Truthy(flags, "payerConfirmed")
    \/ Truthy(flags, "payeeConfirmed")

\* "If both confirmed, complete transaction"
BothConfirmed(row, flags) ==
    \/ Truthy(flags, "payerConfirmed") /\ row.payeeConfirmed
    \/ Truthy(flags, "payeeConfirmed") /\ row.payerConfirmed

\* The updates object of the confirm handler; now is new Date().
ConfirmUpdates(row, role, now) ==
    LET flags == IF role = "payer"
                 THEN [payerConfirmed |-> TRUE]
                 ELSE [payeeConfirmed |-> TRUE]
    IN  IF BothConfirmed(row, flags)
        THEN flags @@ [status |-> "completed", completedAt |-> now]
        ELSE flags

\* PATCH /api/transactions/:id/confirm, up to the await of the update
ConfirmRead(u) ==
    /\ pending[u] = Idle
    /\ LET row == getTaskTransaction
       IN  IF ~row.exists
           THEN /\ http' = Answer("confirm", u, Absent, HttpNotFound)
                /\ sent' = NoEvent
                /\ UNCHANGED pending
           ELSE IF Role(row, u) = "none"
           THEN /\ http' = Answer("confirm", u, Absent, HttpForbidden)
                /\ sent' = NoEvent
                /\ UNCHANGED pending
           ELSE /\ pending' = [pending EXCEPT ![u] =
                                 [op |-> "confirm",
                                  updates |-> ConfirmUpdates(row, Role(row, u), clock)]]
                /\ UNCHANGED <<http, sent>>
    /\ UNCHANGED <<members, task, transaction, duplicated, clock>>
    /\ UNCHANGED chatVars
    /\ UNCHANGED otherVars

\* ... and from the update to the response
ConfirmWrite(u) ==
    /\ pending[u].op = "confirm"
    /\ transaction' = updateTransaction(transaction, pending[u].updates)
    /\ pending' = [pending EXCEPT ![u] = Idle]
    /\ http' = Answer("confirm", u, Absent, HttpOk)
    /\ sent' = NoEvent
    /\ UNCHANGED <<members, task, duplicated, clock>>
    /\ UNCHANGED chatVars
    /\ UNCHANGED otherVars

\* PATCH /api/transactions/:id with {status: "cancelled"}, the client's
\* cancelTransactionMutation: registerRoutes defines no handler for it.
CancelTransaction(u) ==
    /\ http' = Answer("cancelTransaction", u, Absent, NoRoute)
    /\ sent' = NoEvent
    /\ UNCHANGED <<members, task, transaction, duplicated, pending, clock>>
    /\ UNCHANGED chatVars
    /\ UNCHANGED otherVars

\* Time passes.
Tick ==
    /\ clock < MaxClock
    /\ clock' = clock + 1
    /\ UNCHANGED <<members, task, transaction, duplicated, pending, http, sent>>
    /\ UNCHANGED chatVars
    /\ UNCHANGED otherVars

(***************************************************************************)
(* The handshake on the transaction of an accepted task (author 1, helper  *)
(* 2).  SpecHandshake runs the requests one at a time; SpecRace lets the   *)
(* handlers of different users interleave at their awaits.                 *)
(***************************************************************************)
InitHandshake ==
    /\ community = [exists |-> TRUE, creatorId |-> 1]
    /\ members = Users \ {NumUsers}
    /\ task \in {[exists |-> TRUE, status |-> "accepted", authorId |-> 1, helperId |-> 2,
                  reward |-> r] : r \in Rewards}
    /\ transaction = NoTransaction
    /\ duplicated = FALSE
    /\ conversations = {}
    /\ messages = {}
    /\ ratings = <<>>
    /\ rating = 0
    /\ pending = [u \in Users |-> Idle]
    /\ clock = 0
    /\ http = Answer("none", NoUser, Absent, NoRoute)
    /\ returned = NoConversation
    /\ listed = <<>>
    /\ sent = NoEvent

AllIdle == \A u \in Users : pending[u] = Idle

NextHandshake ==
    \/ \E u \in Users, body \in TransactionBodies : AllIdle /\ PostTransaction(u, body)
    \/ \E u \in Users : AllIdle /\ StartRead(u)
    \/ \E u \in Users : StartWrite(u)
    \/ \E u \in Users : AllIdle /\ ConfirmRead(u)
    \/ \E u \in Users : ConfirmWrite(u)
    \/ \E u \in Users : AllIdle /\ CancelTransaction(u)
    \/ AllIdle /\ Tick

SpecHandshake == InitHandshake /\ [][NextHandshake]_vars

NextRace ==
    \/ \E u \in Users, body \in TransactionBodies : PostTransaction(u, body)
    \/ \E u \in Users : StartRead(u)
    \/ \E u \in Users : StartWrite(u)
    \/ \E u \in Users : ConfirmRead(u)
    \/ \E u \in Users : ConfirmWrite(u)
    \/ \E u \in Users : CancelTransaction(u)
    \/ Tick

SpecRace == InitHandshake /\ [][NextRace]_vars

(***************************************************************************)
(* From the task to its transaction: the task is created and patched (the  *)
(* bodies that carry no status), and any user asks for the transaction to  *)
(* be created.                                                             *)
(***************************************************************************)
DealPatches == {body \in TaskPatches : body.status = AbsentStatus}

NextDeal ==
    \/ \E u \in Users, valid \in BOOLEAN, reward \in Rewards : PostTask(u, valid, reward)
    \/ \E u \in Users, body \in DealPatches : PatchTask(u, body)
    \/ \E u \in Users, body \in TransactionBodies : PostTransaction(u, body)

SpecDeal == InitTask /\ [][NextDeal]_vars

(***************************************************************************)
(* Conversations.  getOrCreateConversation awaits its select and then its  *)
(* insert: a handler that found no row takes a second step.  A user may    *)
(* have several requests in flight: pending[u].authorIds lists the authorId *)
(* of each of the user's handlers that is between its select and its insert.*)
(***************************************************************************)
\* Mutant of Matching: the two user columns are compared the wrong way round.
MatchingSwapped(authorId, participantId) ==
    {c \in conversations : c.authorId = participantId /\ c.participantId = authorId}

\* The rows the select returns for (taskId, authorId, participantId).
Matching(authorId, participantId) ==
    {c \in conversations : c.authorId = authorId /\ c.participantId = participantId}

\* The row of INSERT ... RETURNING: its id is a fresh one.
NewConversation(authorId, participantId) ==
    [id |-> Cardinality(conversations) + 1, authorId |-> authorId,
     participantId |-> participantId]

\* Handlers between their select and their insert.
Inserting ==
    {h \in Users \X (1..MaxConversations) :
        /\ pending[h[1]].op = "conversation"
        /\ h[2] <= Len(pending[h[1]].authorIds)}

\* The sequence without its i-th element.
Without(seq, i) == [j \in 1..(Len(seq) - 1) |-> IF j < i THEN seq[j] ELSE seq[j + 1]]

\* POST /api/conversations with body {taskId, authorId}, up to the await of the
\* insert; authorId = Absent fails insertConversationSchema.parse.  The
\* destructuring takes the first row of the select, whichever that is.
PostConversation(u, authorId) ==
    /\ pending[u].op \in {"idle", "conversation"}
    /\ IF authorId = Absent
       THEN /\ http' = Answer("conversation", u, Absent, HttpServerError)
            /\ returned' = NoConversation
            /\ listed' = <<>>
            /\ sent' = NoEvent
            /\ UNCHANGED pending
       ELSE IF Matching(authorId, u) # {}
       THEN /\ \E c \in Matching(authorId, u) : returned' = c
            /\ http' = Answer("conversation", u, Absent, HttpOk)
            /\ listed' = <<>>
            /\ sent' = NoEvent
            /\ UNCHANGED pending
       ELSE /\ Cardinality(conversations) + Cardinality(Inserting) < MaxConversations
            /\ pending' = [pending EXCEPT ![u] =
                              [op |-> "conversation",
                               authorIds |-> IF pending[u] = Idle THEN <<authorId>>
                                             ELSE Append(pending[u].authorIds, authorId)]]
            /\ UNCHANGED <<http, returned, listed, sent>>
    /\ UNCHANGED <<community, members, task, transaction, duplicated, conversations,
                   messages, ratings, rating, clock>>

\* ... and from the insert to the response; task_id references tasks.id.
ConversationInsert(u) ==
    /\ pending[u].op = "conversation"
    /\ \E i \in 1..Len(pending[u].authorIds) :
          /\ pending' = [pending EXCEPT ![u] =
                            IF Len(@.authorIds) = 1 THEN Idle
                            ELSE [@ EXCEPT !.authorIds = Without(@, i)]]
          /\ IF ~task.exists
             THEN /\ http' = Answer("conversation", u, Absent, HttpServerError)
                  /\ returned' = NoConversation
                  /\ UNCHANGED conversations
             ELSE /\ http' = Answer("conversation", u, Absent, HttpOk)
                  /\ returned' = NewConversation(pending[u].authorIds[i], u)
                  /\ conversations' =
                        conversations \cup {NewConversation(pending[u].authorIds[i], u)}
    /\ listed' = <<>>
    /\ sent' = NoEvent
    /\ UNCHANGED <<community, members, task, transaction, duplicated, messages,
                   ratings, rating, clock>>

\* The conversation requests, one at a time, on a task that exists or not.
InitConversation ==
    /\ community = [exists |-> TRUE, creatorId |-> 1]
    /\ members = Users \ {NumUsers}
    /\ task \in {NoTask, [exists |-> TRUE, status |-> "open", authorId |-> 1,
                          helperId |-> NoUser, reward |-> 15000]}
    /\ transaction = NoTransaction
    /\ duplicated = FALSE
    /\ conversations = {}
    /\ messages = {}
    /\ ratings = <<>>
    /\ rating = 0
    /\ pending = [u \in Users |-> Idle]
    /\ clock = 0
    /\ http = Answer("none", NoUser, Absent, NoRoute)
    /\ returned = NoConversation
    /\ listed = <<>>
    /\ sent = NoEvent

NextConversation ==
    \/ \E u \in Users, authorId \in Users \cup {Absent} :
            AllIdle /\ PostConversation(u, authorId)
    \/ \E u \in Users : ConversationInsert(u)

SpecConversation == InitConversation /\ [][NextConversation]_vars

\* The conversation requests with their selects and inserts interleaved.
NextConversationRace ==
    \/ \E u \in Users, authorId \in Users \cup {Absent} : PostConversation(u, authorId)
    \/ \E u \in Users : ConversationInsert(u)

SpecConversationRace == InitConversation /\ [][NextConversationRace]_vars

(***************************************************************************)
(* Messages.  A message row is [id, taskId, conversationId, senderId,      *)
(* createdAt]; createdAt is defaultNow().                                  *)
(***************************************************************************)
\* A POST .../messages body: insertMessageSchema keeps the keys content,
\* taskId and conversationId (content: the body carries one).
MessageBodies ==
    [content : BOOLEAN, taskId : {Absent, TaskId}, conversationId : {Absent, 1}]

\* The column a body key is stored in: a key the body does not carry is NULL.
Column(value) == IF value = Absent THEN NoId ELSE value

\* The foreign keys of a messages row.
MessageReferences(taskId, conversationId) ==
    /\ taskId # NoId => task.exists
    /\ conversationId # NoId => \E c \in conversations : c.id = conversationId

\* INSERT INTO messages ... RETURNING
createMessage(rows, row) == rows \cup {row}

\* The new_message event sent to every open WebSocket client.
MessageEvent(row) == [type |-> "new_message", message |-> row]

\* The two POST .../messages handlers after the spread of the body: parse,
\* createMessage, broadcast, response.  A failed parse or a foreign key the
\* insert violates throws, and the catch answers 500.
SendMessage(op, u, content, taskId, conversationId) ==
    LET row == [id |-> Cardinality(messages) + 1, taskId |-> taskId,
                conversationId |-> conversationId, senderId |-> u,
                createdAt |-> clock]
    IN  /\ Cardinality(messages) < MaxMessages
        /\ IF content /\ MessageReferences(taskId, conversationId)
           THEN /\ messages' = createMessage(messages, row)
                /\ sent' = MessageEvent(row)
                /\ http' = Answer(op, u, Absent, HttpOk)
           ELSE /\ UNCHANGED messages
                /\ sent' = NoEvent
                /\ http' = Answer(op, u, Absent, HttpServerError)
        /\ listed' = <<>>
        /\ returned' = NoConversation
        /\ UNCHANGED <<community, members, task, transaction, duplicated, conversations,
                       ratings, rating, pending, clock>>

\* POST /api/conversations/:id/messages: {...req.body, conversationId: id, senderId}
PostConversationMessage(u, id, body) ==
    SendMessage("conversationMessage", u, body.content, Column(body.taskId), id)

\* POST /api/tasks/:id/messages: {...req.body, taskId: id, senderId}
PostTaskMessage(u, body) ==
    SendMessage("taskMessage", u, body.content, TaskId, Column(body.conversationId))

\* Mutant of OrderBy: the rows come in descending order of createdAt.
OrderByDescending(rows) ==
    {seq \in [1..Cardinality(rows) -> rows] :
        /\ \A i, j \in DOMAIN seq : i # j => seq[i] # seq[j]
        /\ \A i, j \in DOMAIN seq : i < j => seq[i].createdAt >= seq[j].createdAt}

\* ORDER BY created_at: the orders in which the database may return the rows.
OrderBy(rows) ==
    {seq \in [1..Cardinality(rows) -> rows] :
        /\ \A i, j \in DOMAIN seq : i # j => seq[i] # seq[j]
        /\ \A i, j \in DOMAIN seq : i < j => seq[i].createdAt <= seq[j].createdAt}

\* The two GET .../messages handlers; the inner join with users keeps every
\* row, sender_id references users.
ListMessages(op, u, rows) ==
    /\ \E seq \in OrderBy(rows) : listed' = seq
    /\ http' = Answer(op, u, Absent, HttpOk)
    /\ returned' = NoConversation
    /\ sent' = NoEvent
    /\ UNCHANGED <<community, members, task, transaction, duplicated, conversations,
                   messages, ratings, rating, pending, clock>>

\* GET /api/conversations/:id/messages
GetConversationMessages(u, id) ==
    ListMessages("conversationMessages", u, {m \in messages : m.conversationId = id})

\* GET /api/tasks/:id/messages
GetTaskMessages(u) ==
    ListMessages("taskMessages", u, {m \in messages : m.taskId = TaskId})

\* The messages of an open task of user 1 and of the conversation (id 1)
\* user 2 has opened on it; conversation id 2 does not exist.
InitMessages ==
    /\ community = [exists |-> TRUE, creatorId |-> 1]
    /\ members = Users \ {NumUsers}
    /\ task = createTask(1, 15000)
    /\ transaction = NoTransaction
    /\ duplicated = FALSE
    /\ conversations = {[id |-> 1, authorId |-> 1, participantId |-> 2]}
    /\ messages = {}
    /\ ratings = <<>>
    /\ rating = 0
    /\ pending = [u \in Users |-> Idle]
    /\ clock = 0
    /\ http = Answer("none", NoUser, Absent, NoRoute)
    /\ returned = NoConversation
    /\ listed = <<>>
    /\ sent = NoEvent

\* The users who write: the task's author and the conversation's participant.
Writers == {1, 2}

NextMessages ==
    \/ \E u \in Writers, id \in {1, 2}, body \in MessageBodies :
            PostConversationMessage(u, id, body)
    \/ \E u \in Writers, body \in MessageBodies : PostTaskMessage(u, body)
    \/ \E u \in Users, id \in {1, 2} : GetConversationMessages(u, id)
    \/ \E u \in Users : GetTaskMessages(u)
    \/ Tick

SpecMessages == InitMessages /\ [][NextMessages]_vars

(***************************************************************************)
(* Ratings.  createRating awaits its insert, its select of the rated       *)
(* user's ratings and its update of users.rating: three steps.  The model  *)
(* follows the ratings given to ONE rated user on the task.                *)
(***************************************************************************)
\* The values a rating takes.
RatingValues == 1..5

RECURSIVE Sum(_)
Sum(seq) == IF seq = <<>> THEN 0 ELSE Head(seq).rating + Sum(Tail(seq))

\* (sum / length).toFixed(2), in hundredths: rounded to the nearest, a half up.
ToFixed2(sum, length) == (200 * sum + length) \div (2 * length)

\* POST /api/ratings, to the await of the select; a body without a rating
\* fails insertRatingSchema.parse.
RateInsert(u, value) ==
    /\ pending[u] = Idle
    /\ Len(ratings) < MaxRatings
    /\ IF value = Absent
       THEN /\ http' = Answer("rating", u, Absent, HttpServerError)
            /\ returned' = NoConversation
            /\ listed' = <<>>
            /\ sent' = NoEvent
            /\ UNCHANGED <<ratings, pending>>
       ELSE /\ ratings' = Append(ratings, [raterId |-> u, rating |-> value])
            /\ pending' = [pending EXCEPT ![u] = [op |-> "rating", step |-> "select"]]
            /\ UNCHANGED <<http, returned, listed, sent>>
    /\ UNCHANGED <<community, members, task, transaction, duplicated, conversations,
                   messages, rating, clock>>

\* ... the select and the reduce, to the await of the update
RateSelect(u) ==
    /\ pending[u] = [op |-> "rating", step |-> "select"]
    /\ pending' = [pending EXCEPT ![u] =
                      [op |-> "rating", step |-> "update",
                       avgRating |-> ToFixed2(Sum(ratings), Len(ratings))]]
    /\ UNCHANGED <<community, members, task, transaction, duplicated, conversations,
                   messages, ratings, rating, clock, http, returned, listed, sent>>

\* ... and from the update to the response
RateUpdate(u) ==
    /\ pending[u].op = "rating"
    /\ pending[u].step = "update"
    /\ rating' = pending[u].avgRating
    /\ pending' = [pending EXCEPT ![u] = Idle]
    /\ http' = Answer("rating", u, Absent, HttpOk)
    /\ returned' = NoConversation
    /\ listed' = <<>>
    /\ sent' = NoEvent
    /\ UNCHANGED <<community, members, task, transaction, duplicated, conversations,
                   messages, ratings, clock>>

\* The ratings of a user after the task of user 1, helped by user 2, is completed.
InitRating ==
    /\ community = [exists |-> TRUE, creatorId |-> 1]
    /\ members = Users \ {NumUsers}
    /\ task = [createTask(1, 15000) EXCEPT !.helperId = 2, !.status = "completed"]
    /\ transaction = NoTransaction
    /\ duplicated = FALSE
    /\ conversations = {}
    /\ messages = {}
    /\ ratings = <<>>
    /\ rating = 0
    /\ pending = [u \in Users |-> Idle]
    /\ clock = 0
    /\ http = Answer("none", NoUser, Absent, NoRoute)
    /\ returned = NoConversation
    /\ listed = <<>>
    /\ sent = NoEvent

\* The rating submissions with their steps interleaved.
NextRating ==
    \/ \E u \in Users, value \in RatingValues \cup {Absent} : RateInsert(u, value)
    \/ \E u \in Users : RateSelect(u)
    \/ \E u \in Users : RateUpdate(u)

SpecRating == InitRating /\ [][NextRating]_vars

(***************************************************************************)
(* The inbox.  A chat is [id, conversationId]: the task's columns (id is   *)
(* the task's id) and the conversationId key, NoId when the entry has none. *)
(***************************************************************************)
\* getUserChats: the tasks the user is author or helper of, inner-joined with
\* the messages on task_id and grouped by task.
getUserChats(u) ==
    IF /\ task.exists
       /\ u \in {task.authorId, task.helperId}
       /\ \E m \in messages : m.taskId = TaskId
    THEN <<[id |-> TaskId, conversationId |-> NoId]>>
    ELSE <<>>

\* getUserConversations: the conversations the user is author or participant of.
getUserConversations(u) ==
    {c \in conversations : c.authorId = u \/ c.participantId = u}

\* The orders in which a select without ORDER BY may return the rows.
AnyOrder(rows) ==
    {seq \in [1..Cardinality(rows) -> rows] :
        \A i, j \in DOMAIN seq : i # j => seq[i] # seq[j]}

\* conversationChats: {...conv.task, conversationId: conv.id}
ConversationChats(convs) ==
    [i \in DOMAIN convs |-> [id |-> TaskId, conversationId |-> convs[i].id]]

\* Mutant of MapSet: the chats are pushed on an array, not keyed by their id.
MapSetPush(map, chat) == Append(map, chat)

\* chatMap.set(chat.id, chat); a Map keeps its keys in insertion order.
MapSet(map, chat) ==
    IF \E i \in DOMAIN map : map[i].id = chat.id
    THEN [i \in DOMAIN map |-> IF map[i].id = chat.id THEN chat ELSE map[i]]
    ELSE Append(map, chat)

\* chats.forEach(chat => chatMap.set(chat.id, chat))
RECURSIVE SetEach(_, _)
SetEach(map, chats) ==
    IF chats = <<>> THEN map ELSE SetEach(MapSet(map, Head(chats)), Tail(chats))

\* GET /api/chats: the task chats are set first, the conversation chats over them.
GetChats(u) ==
    /\ \E convs \in AnyOrder(getUserConversations(u)) :
          listed' = SetEach(SetEach(<<>>, getUserChats(u)), ConversationChats(convs))
    /\ http' = Answer("chats", u, Absent, HttpOk)
    /\ returned' = NoConversation
    /\ sent' = NoEvent
    /\ UNCHANGED <<community, members, task, transaction, duplicated, conversations,
                   messages, ratings, rating, pending, clock>>

\* The inbox of the users around the task of user 1, accepted by user 2:
\* users open conversations with the task's author and write on the task.
InitChat ==
    /\ community = [exists |-> TRUE, creatorId |-> 1]
    /\ members = Users \ {NumUsers}
    /\ task = [createTask(1, 15000) EXCEPT !.helperId = 2, !.status = "accepted"]
    /\ transaction = NoTransaction
    /\ duplicated = FALSE
    /\ conversations = {}
    /\ messages = {}
    /\ ratings = <<>>
    /\ rating = 0
    /\ pending = [u \in Users |-> Idle]
    /\ clock = 0
    /\ http = Answer("none", NoUser, Absent, NoRoute)
    /\ returned = NoConversation
    /\ listed = <<>>
    /\ sent = NoEvent

NextChat ==
    \/ \E u \in Users : AllIdle /\ PostConversation(u, task.authorId)
    \/ \E u \in Users : ConversationInsert(u)
    \/ \E u \in Writers, body \in MessageBodies : AllIdle /\ PostTaskMessage(u, body)
    \/ \E u \in Users : AllIdle /\ GetChats(u)

SpecChat == InitChat /\ [][NextChat]_vars

(***************************************************************************)
(* The deletion of the community.  deleteCommunity awaits every statement: *)
(* the handler takes one step per statement, and one per conversation in   *)
(* its loop over the task's conversations.  pending[u].next is the index   *)
(* of the statement the handler executes next.                             *)
(***************************************************************************)
NoCommunity == [exists |-> FALSE, creatorId |-> NoUser]

\* Mutant of deleteCommunityOrder: the conversations are deleted before the
\* messages of the conversations.
deleteCommunityConversationsFirst ==
    <<"members", "selectTasks", "selectConversations", "conversations",
      "conversationMessages", "taskMessages", "transactions", "ratings",
      "tasks", "community">>

\* The statements of deleteCommunity, in the order of the code.
deleteCommunityOrder ==
    <<"members", "selectTasks", "selectConversations", "conversationMessages",
      "taskMessages", "conversations", "transactions", "ratings",
      "tasks", "community">>

\* The statements in the body of the loop over the community's tasks.
PerTask ==
    {"selectConversations", "conversationMessages", "taskMessages", "conversations",
     "transactions", "ratings"}

\* DELETE /api/communities/:id, to the call of deleteCommunity
DeleteCommunity(u) ==
    /\ pending[u] = Idle
    /\ IF ~community.exists
       THEN /\ http' = Answer("deleteCommunity", u, Absent, HttpNotFound)
            /\ UNCHANGED pending
       ELSE IF community.creatorId # u
       THEN /\ http' = Answer("deleteCommunity", u, Absent, HttpForbidden)
            /\ UNCHANGED pending
       ELSE /\ pending' = [pending EXCEPT ![u] =
                              [op |-> "deleteCommunity", next |-> 1,
                               communityTasks |-> FALSE, taskConversations |-> <<>>]]
            /\ UNCHANGED http
    /\ returned' = NoConversation
    /\ listed' = <<>>
    /\ sent' = NoEvent
    /\ UNCHANGED <<community, members, task, transaction, duplicated, conversations,
                   messages, ratings, rating, clock>>

\* The foreign keys are ON DELETE NO ACTION: a delete statement throws when a
\* stored row references a row it deletes.
Referenced(statement) ==
    CASE statement = "conversations" -> \E m \in messages : m.conversationId # NoId
      [] statement = "tasks" ->
            /\ task.exists
            /\ \/ \E m \in messages : m.taskId # NoId
               \/ conversations # {}
               \/ transaction.exists
               \/ ratings # <<>>
      [] statement = "community" -> task.exists \/ members # {}
      [] OTHER -> FALSE

\* One statement of deleteCommunity; after the last one, the response.  A
\* statement that throws ends the handler in the catch of the route.
DeleteStep(u) ==
    /\ pending[u].op = "deleteCommunity"
    /\ LET p == pending[u]
           statement == deleteCommunityOrder[p.next]
           \* no task was selected: the loop body is not executed
           run == statement \notin PerTask \/ p.communityTasks
           \* the inner loop has a conversation left
           inner == run /\ statement = "conversationMessages" /\ p.taskConversations # <<>>
           last == p.next = Len(deleteCommunityOrder)
       IN  IF run /\ Referenced(statement)
           THEN
           /\ pending' = [pending EXCEPT ![u] = Idle]
           /\ http' = Answer("deleteCommunity", u, Absent, HttpServerError)
           /\ UNCHANGED <<community, members, task, transaction, duplicated,
                          conversations, messages, ratings>>
           ELSE
           /\ members' = IF statement = "members" THEN {} ELSE members
           /\ messages' =
                 IF inner
                 THEN {m \in messages : m.conversationId # Head(p.taskConversations).id}
                 ELSE IF run /\ statement = "taskMessages"
                 THEN {m \in messages : m.taskId # TaskId}
                 ELSE messages
           /\ conversations' = IF run /\ statement = "conversations" THEN {} ELSE conversations
           /\ transaction' = IF run /\ statement = "transactions"
                             THEN NoTransaction ELSE transaction
           /\ duplicated' = IF run /\ statement = "transactions" THEN FALSE ELSE duplicated
           /\ ratings' = IF run /\ statement = "ratings" THEN <<>> ELSE ratings
           /\ task' = IF statement = "tasks" THEN NoTask ELSE task
           /\ community' = IF statement = "community" THEN NoCommunity ELSE community
           /\ \E order \in AnyOrder(conversations) :
                 pending' = [pending EXCEPT ![u] =
                    IF last THEN Idle
                    ELSE [p EXCEPT
                            !.next = IF inner THEN @ ELSE @ + 1,
                            !.communityTasks =
                                IF statement = "selectTasks" THEN task.exists ELSE @,
                            !.taskConversations =
                                IF run /\ statement = "selectConversations" THEN order
                                ELSE IF inner THEN Tail(@)
                                ELSE @]]
           /\ http' = IF last THEN Answer("deleteCommunity", u, Absent, HttpOk) ELSE http
    /\ UNCHANGED <<rating, clock, returned, listed, sent>>

\* The messages a community may hold: each row on the task, on one of the
\* conversations, or on both; the ids are those of the inserts.
MessageScopes ==
    {sc \in [taskId : {NoId, TaskId}, conversationId : {NoId} \cup (1..MaxConversations)] :
        sc.taskId # NoId \/ sc.conversationId # NoId}

MessageTables(convs) ==
    {{[id |-> i, taskId |-> scopes[i].taskId, conversationId |-> scopes[i].conversationId,
       senderId |-> 1, createdAt |-> 0] : i \in DOMAIN scopes} :
        scopes \in UNION {[1..k -> {sc \in MessageScopes :
                                        sc.conversationId \in {NoId} \cup {c.id : c \in convs}}]
                          : k \in 0..MaxMessages}}

\* A community of user 1 before its deletion: with no task, or with the
\* task of user 1 accepted by user 2, some conversations with the author,
\* messages, the transaction (or two) and a rating.
InitCascade ==
    /\ community = [exists |-> TRUE, creatorId |-> 1]
    /\ members = Users \ {NumUsers}
    /\ task \in {NoTask, [createTask(1, 15000) EXCEPT !.helperId = 2, !.status = "accepted"]}
    /\ conversations \in
          {{[id |-> i, authorId |-> 1, participantId |-> i] : i \in 1..k} :
              k \in IF task.exists THEN 0..MaxConversations ELSE {0}}
    /\ messages \in IF task.exists THEN MessageTables(conversations) ELSE {{}}
    /\ transaction \in IF task.exists
                        THEN {NoTransaction, createTransaction(1, 2, 15000)}
                        ELSE {NoTransaction}
    /\ duplicated \in IF transaction.exists THEN BOOLEAN ELSE {FALSE}
    /\ ratings \in IF task.exists THEN {<<>>, <<[raterId |-> 1, rating |-> 5]>>} ELSE {<<>>}
    /\ rating = IF ratings = <<>> THEN 0 ELSE 500
    /\ pending = [u \in Users |-> Idle]
    /\ clock = 0
    /\ http = Answer("none", NoUser, Absent, NoRoute)
    /\ returned = NoConversation
    /\ listed = <<>>
    /\ sent = NoEvent

\* The deletion runs with no other operation in progress.
NextCascade ==
    \/ \E u \in Users : AllIdle /\ DeleteCommunity(u)
    \/ \E u \in Users : DeleteStep(u)

SpecCascade == InitCascade /\ [][NextCascade]_vars

(***************************************************************************)
(* The broadcasts.  The accepted task of user 1 has its transaction and a  *)
(* conversation with user 2; the parties request the start and write       *)
(* messages while the creator may delete the community.                    *)
(***************************************************************************)
InitBroadcast ==
    /\ community = [exists |-> TRUE, creatorId |-> 1]
    /\ members = Users \ {NumUsers}
    /\ task = [createTask(1, 15000) EXCEPT !.helperId = 2, !.status = "accepted"]
    /\ transaction = createTransaction(1, 2, 15000)
    /\ duplicated = FALSE
    /\ conversations = {[id |-> 1, authorId |-> 1, participantId |-> 2]}
    /\ messages = {}
    /\ ratings = <<>>
    /\ rating = 0
    /\ pending = [u \in Users |-> Idle]
    /\ clock = 0
    /\ http = Answer("none", NoUser, Absent, NoRoute)
    /\ returned = NoConversation
    /\ listed = <<>>
    /\ sent = NoEvent

\* The bodies the client sends: content and no foreign key of its own.
PlainBodies == {body \in MessageBodies :
                   body.content /\ body.taskId = Absent /\ body.conversationId = Absent}

NextBroadcast ==
    \/ \E u \in Users : StartRead(u)
    \/ \E u \in Users : StartWrite(u)
    \/ \E u \in Users : StartFail(u)
    \/ \E u \in Writers, body \in PlainBodies :
            pending[u] = Idle /\ PostConversationMessage(u, 1, body)
    \/ \E u \in Writers, body \in PlainBodies : pending[u] = Idle /\ PostTaskMessage(u, body)
    \/ \E u \in Users : DeleteCommunity(u)
    \/ \E u \in Users : DeleteStep(u)

SpecBroadcast == InitBroadcast /\ [][NextBroadcast]_vars

(***************************************************************************)
(* Properties of the task lifecycle (SpecTask).                            *)
(***************************************************************************)
LegalTaskTransitions ==
    {<<"open", "accepted">>, <<"accepted", "in_progress">>,
     <<"in_progress", "completed">>, <<"open", "cancelled">>,
     <<"accepted", "cancelled">>}

\* C1: every change of a task's status is one of open->accepted,
\* accepted->in_progress, in_progress->completed, open->cancelled,
\* accepted->cancelled; the status of a completed or cancelled task never changes.
C1_TaskForwardOnly ==
    [][(task.exists /\ task'.exists /\ task'.status # task.status)
          => <<task.status, task'.status>> \in LegalTaskTransitions]_vars

\* C7: a PATCH whose helperId is the actor, sent by the task's author, is
\* answered 400 and leaves the task row as it was.
C7_NoSelfAccept ==
    [][(/\ http'.op = "patch"
        /\ task.exists
        /\ http'.actor = task.authorId
        /\ http'.helperId = http'.actor)
          => (http'.code = HttpBadRequest /\ task' = task)]_vars

\* C7 witness: the author's self-accept has just been refused.
C7_Witness ==
    /\ http.op = "patch"
    /\ http.code = HttpBadRequest
    /\ task.exists
    /\ http.actor = task.authorId
    /\ http.helperId = http.actor
    /\ task.helperId = NoUser
    /\ task.status = "open"

\* C8: no task has a helperId equal to its authorId.
C8_HelperIsNotAuthor ==
    task.exists => task.helperId # task.authorId

\* C9: an Accept (PATCH with helperId = actor) of a task that already has a
\* helper, or whose status is not open, sent by an actor other than that
\* helper, fails and leaves helperId and status unchanged.
C9_AcceptOnlyOpen ==
    [][(/\ http'.op = "patch"
        /\ task.exists
        /\ http'.helperId = http'.actor
        /\ http'.actor # task.helperId
        /\ (task.status # "open" \/ task.helperId # NoUser))
          => /\ http'.code # HttpOk
             /\ task'.helperId = task.helperId
             /\ task'.status = task.status]_vars

\* C10: DELETE /tasks/{id} on an existing task: a non-author is answered 403,
\* the author of a task that is not open or accepted is answered 400, both
\* leave the row unchanged; otherwise the status, and only it, becomes cancelled.
C10_CancelGuards ==
    [][(http'.op = "delete" /\ task.exists)
          => /\ (task.authorId # http'.actor)
                    => (http'.code = HttpForbidden /\ task' = task)
             /\ (task.authorId = http'.actor /\ task.status \notin {"open", "accepted"})
                    => (http'.code = HttpBadRequest /\ task' = task)
             /\ (task.authorId = http'.actor /\ task.status \in {"open", "accepted"})
                    => /\ http'.code = HttpOk
                       /\ task' = [task EXCEPT !.status = "cancelled"]]_vars

\* C10 witness: the author has just cancelled an accepted task.
C10_Witness ==
    /\ http.op = "delete"
    /\ http.code = HttpOk
    /\ task.exists
    /\ http.actor = task.authorId
    /\ task.helperId \in Users
    /\ task.status = "cancelled"

\* C11: a PATCH of an existing task by an actor who is not its author is
\* refused and leaves the row unchanged unless body.helperId is the actor
\* (403, or 400 when body.helperId is the author); when it is accepted the
\* actor becomes the helper, the status stays or becomes accepted, it never
\* becomes completed or cancelled, and authorId does not change.
C11_NonAuthorOnlyAccepts ==
    [][(http'.op = "patch" /\ task.exists /\ http'.actor # task.authorId)
          => /\ (http'.helperId # http'.actor)
                    => /\ http'.code \in {HttpForbidden, HttpBadRequest}
                       /\ (http'.code = HttpBadRequest) => (http'.helperId = task.authorId)
                       /\ task' = task
             /\ (http'.code = HttpOk)
                    => /\ task'.helperId = http'.actor
                       /\ task'.status \in {task.status, "accepted"}
                       /\ task'.authorId = task.authorId
                       /\ task'.reward = task.reward]_vars

\* C26: a request on the task sent by a user who is not a member of the
\* task's community (POST /tasks, PATCH /tasks/{id}, DELETE /tasks/{id}) is
\* not answered 200 and leaves the task as it was.
C26_MembersOnly ==
    [][(http'.op \in {"post", "patch", "delete"} /\ ~isCommunityMember(http'.actor))
          => (http'.code # HttpOk /\ task' = task)]_vars

\* C27: the authorId of an existing task never changes.
C27_AuthorImmutable ==
    [][(task.exists /\ task'.exists) => task'.authorId = task.authorId]_vars

(***************************************************************************)
(* Properties of the transaction handshake (SpecHandshake, SpecRace).      *)
(***************************************************************************)
BothStartRequested ==
    transaction.payerStartRequested /\ transaction.payeeStartRequested

\* C2: with the requests executed one at a time, status = in_progress if and
\* only if both start flags are true and the transaction is not cancelled,
\* and status = completed if and only if both confirm flags are true.
C2_HandshakeDerivation ==
    transaction.exists =>
        /\ (transaction.status = "in_progress")
              <=> (BothStartRequested /\ transaction.status # "cancelled")
        /\ (transaction.status = "completed")
              <=> (transaction.payerConfirmed /\ transaction.payeeConfirmed)

\* C3: once the status is completed no request changes the status, a flag or
\* completedAt.
C3_CompletedIsTerminal ==
    [][transaction.status = "completed" => transaction' = transaction]_vars

FlagColumns ==
    {"payerStartRequested", "payeeStartRequested", "payerConfirmed", "payeeConfirmed"}

\* C4: a flag that is true in the store stays true, whatever requests follow
\* and however the handlers' reads and writes interleave.
C4_FlagsMonotone ==
    [][\A k \in FlagColumns : transaction[k] => transaction'[k]]_vars

\* C4 witness: all four flags are stored, handlers of both parties have
\* written after the first flag was set, and a cancel request was answered last.
C4_Witness ==
    /\ \A k \in FlagColumns : transaction[k]
    /\ http.op = "cancelTransaction"
    /\ http.actor = transaction.payeeId

\* C5: a completed transaction has both start flags true.
C5_StartBeforeCompletion ==
    transaction.status = "completed" => BothStartRequested

\* C6: once both start flags are stored true the status becomes in_progress
\* (or completed) without a further request: when no handler is in flight, so
\* that nothing more will be written, a transaction with both start flags
\* true has status in_progress or completed.
C6_BothFlagsStarted ==
    (AllIdle /\ BothStartRequested)
        => transaction.status \in {"in_progress", "completed"}

\* The start flag and the confirm flag of user u, and those of the other party.
OwnStart(u) ==
    IF transaction.payerId = u THEN "payerStartRequested" ELSE "payeeStartRequested"
OtherStart(u) ==
    IF transaction.payerId = u THEN "payeeStartRequested" ELSE "payerStartRequested"
OwnConfirm(u) ==
    IF transaction.payerId = u THEN "payerConfirmed" ELSE "payeeConfirmed"
OtherConfirm(u) ==
    IF transaction.payerId = u THEN "payeeConfirmed" ELSE "payerConfirmed"

\* C12: with the requests executed one at a time, a start request of a party
\* stores that party's start flag, leaves the other start flag, both confirm
\* flags, the parties, the amount and completedAt as they were, and stores
\* status in_progress if the other party's start flag was stored, otherwise
\* start_requested; when the request answered just before was a start request
\* of the same party, the row is left exactly as it was.
C12_RequestStart ==
    [][\A u \in Users :
          (pending[u].op = "start" /\ pending'[u] = Idle)
             => /\ transaction' =
                      [transaction EXCEPT
                          ![OwnStart(u)] = TRUE,
                          !.status = IF transaction[OtherStart(u)]
                                     THEN "in_progress" ELSE "start_requested"]
                /\ (http = Answer("start", u, Absent, HttpOk))
                      => transaction' = transaction]_vars

\* C12 witness: the payee's start request has just been answered, after the
\* payer's start request and the payer's confirmation: both start flags are
\* stored, the status is in_progress and the confirm flags are as they were.
C12_Witness ==
    /\ http = Answer("start", transaction.payeeId, Absent, HttpOk)
    /\ BothStartRequested
    /\ transaction.status = "in_progress"
    /\ transaction.payerConfirmed
    /\ ~transaction.payeeConfirmed

\* C13: with the requests executed one at a time, a confirmation of a party
\* stores that party's confirm flag and leaves the other three flags as they
\* were; if the other party's confirm flag was stored, the status becomes
\* completed and completedAt the time of the request, otherwise the status
\* and completedAt are left as they were.
C13_Confirm ==
    [][\A u \in Users :
          (pending[u].op = "confirm" /\ pending'[u] = Idle)
             => transaction' =
                   IF transaction[OtherConfirm(u)]
                   THEN [transaction EXCEPT ![OwnConfirm(u)] = TRUE,
                                            !.status = "completed",
                                            !.completedAt = clock]
                   ELSE [transaction EXCEPT ![OwnConfirm(u)] = TRUE]]_vars

\* C13 witness: the payer alone has confirmed an in_progress transaction and
\* the status is still in_progress, with no completedAt.
C13_Witness ==
    /\ http = Answer("confirm", transaction.payerId, Absent, HttpOk)
    /\ transaction.status = "in_progress"
    /\ transaction.payerConfirmed
    /\ ~transaction.payeeConfirmed
    /\ transaction.completedAt = NoTime

\* C14: a start request or a confirmation of an existing transaction by an
\* actor who is neither its payer nor its payee is answered 403, leaves the
\* row as it was and broadcasts no event, however the handlers interleave.
C14_PartiesOnly ==
    [][(/\ http'.op \in {"start", "confirm"}
        /\ transaction.exists
        /\ http'.actor \notin {transaction.payerId, transaction.payeeId})
          => /\ http'.code = HttpForbidden
             /\ transaction' = transaction
             /\ sent' = NoEvent]_vars

\* C14 witness: the confirmation of a third user has just been refused on an
\* in_progress transaction.
C14_Witness ==
    /\ http.op = "confirm"
    /\ http.code = HttpForbidden
    /\ transaction.exists
    /\ http.actor \in Users \ {transaction.payerId, transaction.payeeId}
    /\ transaction.status = "in_progress"
    /\ sent = NoEvent

\* C17: a PATCH /transactions/{id} with status cancelled, sent by the payer
\* or the payee of a transaction whose status is neither completed nor
\* cancelled, stores the status cancelled and leaves the four flags as they were.
C17_CancelStored ==
    [][(/\ http'.op = "cancelTransaction"
        /\ http' # http
        /\ transaction.exists
        /\ http'.actor \in {transaction.payerId, transaction.payeeId}
        /\ transaction.status \notin {"completed", "cancelled"})
          => transaction' = [transaction EXCEPT !.status = "cancelled"]]_vars

(***************************************************************************)
(* Properties of the creation of the transaction (SpecDeal).               *)
(***************************************************************************)
\* C15: the row a transaction creation stores has the task's authorId as
\* payerId, its helperId as payeeId, its reward as amount, status pending,
\* the four flags false and no completedAt, whatever body the request carries.
C15_CreateCopiesTask ==
    [][(~transaction.exists /\ transaction'.exists)
          => /\ http'.op = "createTransaction"
             /\ http'.code = HttpOk
             /\ transaction' =
                   [exists |-> TRUE, payerId |-> task.authorId,
                    payeeId |-> task.helperId, amount |-> task.reward,
                    status |-> "pending",
                    payerStartRequested |-> FALSE, payeeStartRequested |-> FALSE,
                    payerConfirmed |-> FALSE, payeeConfirmed |-> FALSE,
                    completedAt |-> NoTime]]_vars

\* C15 witness: the author has just created the transaction of a task whose
\* helper is another user, and the row carries the task's reward.
C15_Witness ==
    /\ http = Answer("createTransaction", task.authorId, Absent, HttpOk)
    /\ transaction.exists
    /\ ~duplicated
    /\ task.helperId \in Users \ {task.authorId}
    /\ transaction.payerId = task.authorId
    /\ transaction.payeeId = task.helperId
    /\ transaction.amount = task.reward

\* C16: a transaction creation for an existing task sent by a user who is
\* not the task's author, or for a task with no helper, is not answered 200
\* and inserts no row.
C16_CreateByOwnerOnly ==
    [][(/\ http'.op = "createTransaction"
        /\ task.exists
        /\ (http'.actor # task.authorId \/ task.helperId = NoUser))
          => /\ http'.code # HttpOk
             /\ transaction' = transaction
             /\ duplicated' = duplicated]_vars

\* C18: the payer of a transaction is not its payee.
C18_PayerIsNotPayee ==
    transaction.exists => transaction.payerId # transaction.payeeId

\* C19: the task has at most one transaction row.
C19_OneTransactionPerTask ==
    ~duplicated

(***************************************************************************)
(* Properties of the conversations (SpecConversation).                     *)
(***************************************************************************)
\* The row the last response carries is answered to a POST /api/conversations.
Answered(row) ==
    /\ http.op = "conversation"
    /\ http.code = HttpOk
    /\ returned = row

\* C20: with the requests executed one at a time, a POST /api/conversations
\* answered 200 returns a stored row of the participant and the author it was
\* sent for; when a row of that author and participant was already stored
\* (an earlier identical call has returned it), the answer carries the id of
\* that row and no row is inserted.
C20_GetOrCreateTwice ==
    [][(http'.op = "conversation" /\ http'.code = HttpOk)
          => /\ returned' \in conversations'
             /\ returned'.participantId = http'.actor
             /\ \A c \in conversations :
                   (c.authorId = returned'.authorId
                      /\ c.participantId = returned'.participantId)
                        => (returned'.id = c.id /\ conversations' = conversations)]_vars

\* C20 witness: after the conversation of user 2 with author 1 was created
\* (id 1) and another conversation was created after it (id 2), user 2 has
\* asked again for the conversation with author 1 and was answered id 1.
C20_Witness ==
    /\ Cardinality(conversations) = 2
    /\ Answered([id |-> 1, authorId |-> 1, participantId |-> 2])
    /\ AllIdle

\* C21: no two conversations rows have the same authorId and participantId
\* (on the task), however the selects and inserts of the requests interleave.
C21_OneConversationPerTriple ==
    \A c, d \in conversations :
        (c.authorId = d.authorId /\ c.participantId = d.participantId) => c.id = d.id

(***************************************************************************)
(* Properties of the messages (SpecMessages).                              *)
(***************************************************************************)
\* The elements of a sequence.
Range(seq) == {seq[i] : i \in DOMAIN seq}

\* The list holds each of the rows once, in non-decreasing order of createdAt.
ListsExactly(seq, rows) ==
    /\ Range(seq) = rows
    /\ Len(seq) = Cardinality(rows)
    /\ \A i, j \in DOMAIN seq : i < j => seq[i].createdAt <= seq[j].createdAt

\* C22: a GET of the messages of a conversation id, or of the task id,
\* returns each stored message of that scope once, and no other row, in
\* non-decreasing order of createdAt.
C22_ListMessages ==
    [][/\ \A u \in Users, id \in {1, 2} :
            GetConversationMessages(u, id)
               => ListsExactly(listed', {m \in messages : m.conversationId = id})
       /\ \A u \in Users :
            GetTaskMessages(u)
               => ListsExactly(listed', {m \in messages : m.taskId = TaskId})]_vars

\* C22 witness: two messages written at different times were listed for
\* the conversation, the earlier one first.
C22_Witness ==
    /\ http.op = "conversationMessages"
    /\ Len(listed) = 2
    /\ listed[1].createdAt < listed[2].createdAt
    /\ listed[1].conversationId = 1

\* C23: every stored message has exactly one of taskId and conversationId.
C23_OneScope ==
    \A m \in messages : (m.taskId = NoId) # (m.conversationId = NoId)

(***************************************************************************)
(* Properties of the ratings (SpecRating).                                 *)
(***************************************************************************)
\* hundredths is the mean of the ratings rounded to two decimal places.
IsRoundedMean(hundredths, seq) ==
    LET d == 100 * Sum(seq) - hundredths * Len(seq)
    IN  2 * (IF d < 0 THEN -d ELSE d) <= Len(seq)

\* C24: when every rating submission has finished, however their steps were
\* interleaved, the stored rating of the rated user is the mean of all the
\* ratings given, rounded to two decimal places.
C24_RatingIsMean ==
    (AllIdle /\ ratings # <<>>) => IsRoundedMean(rating, ratings)

(***************************************************************************)
(* Properties of the inbox (SpecChat).                                     *)
(***************************************************************************)
\* C25: the list GET /chats returns has at most one entry per task id; when
\* the task has task-scoped messages and the user has a conversation on it,
\* the task's entry is the one derived from a conversation of the user.
C25_OneChatPerTask ==
    [][\A u \in Users :
          GetChats(u)
             => /\ \A i, j \in DOMAIN listed' : listed'[i].id = listed'[j].id => i = j
                /\ ((\E m \in messages : m.taskId = TaskId) /\ getUserConversations(u) # {})
                      => /\ Len(listed') = 1
                         /\ \E c \in getUserConversations(u) :
                               listed'[1].conversationId = c.id]_vars

\* C25 witness: the task's author, who has task-scoped messages on the task
\* and two conversations on it, was answered a single entry, derived from a
\* conversation.
C25_Witness ==
    /\ http = Answer("chats", task.authorId, Absent, HttpOk)
    /\ getUserChats(task.authorId) # <<>>
    /\ Cardinality(getUserConversations(task.authorId)) = 2
    /\ Len(listed) = 1
    /\ listed[1].conversationId # NoId

\* C30: the list GET /chats returns to a user has, for every conversation the
\* user is author or participant of, an entry with that conversation's id.
C30_EveryConversationListed ==
    [][\A u \in Users :
          GetChats(u)
             => \A c \in getUserConversations(u) :
                   \E i \in DOMAIN listed' : listed'[i].conversationId = c.id]_vars

(***************************************************************************)
(* Properties of the deletion of the community (SpecCascade).              *)
(***************************************************************************)
\* Every foreign key of a stored row references a stored row.
ReferencesStored ==
    /\ members # {} => community.exists
    /\ task.exists => community.exists
    /\ \A c \in conversations : task.exists
    /\ \A m \in messages :
          /\ m.taskId # NoId => task.exists
          /\ m.conversationId # NoId => \E c \in conversations : c.id = m.conversationId
    /\ transaction.exists => task.exists
    /\ ratings # <<>> => task.exists

\* No row of the community, of its task or of a child of the task is stored.
NothingLeft ==
    /\ ~community.exists
    /\ members = {}
    /\ ~task.exists
    /\ conversations = {}
    /\ messages = {}
    /\ ~transaction.exists
    /\ ~duplicated
    /\ ratings = <<>>

\* C28: while the deletion of a community runs alone, after each of its
\* statements every stored membership, message, conversation, transaction,
\* rating and task references stored rows only, no statement is refused for
\* a row that still references what it deletes, and when the deletion has
\* answered, no row of the community, of its task or of the task's children
\* is left.
C28_ChildrenBeforeParents ==
    /\ ReferencesStored
    /\ http.op = "deleteCommunity" => http.code # HttpServerError
    /\ (http.op = "deleteCommunity" /\ http.code = HttpOk) => NothingLeft

\* C28 witness: the deletion has removed the memberships, the messages and
\* the conversations of the task and is about to delete the transaction;
\* the transaction, a rating and the task are still stored.
C28_Witness ==
    /\ pending[community.creatorId].op = "deleteCommunity"
    /\ deleteCommunityOrder[pending[community.creatorId].next] = "transactions"
    /\ Len(pending[community.creatorId].taskConversations) = 0
    /\ pending[community.creatorId].communityTasks
    /\ members = {}
    /\ messages = {}
    /\ conversations = {}
    /\ transaction.exists
    /\ ratings # <<>>
    /\ task.exists

(***************************************************************************)
(* Properties of the broadcasts (SpecBroadcast).                           *)
(***************************************************************************)
\* What the event announces is stored.
EventStored ==
    /\ sent.type = "new_message" => sent.message \in messages
    /\ sent.type = "transaction_start_request" =>
          /\ transaction.exists
          /\ transaction.payerId = sent.requestedBy => transaction.payerStartRequested
          /\ transaction.payeeId = sent.requestedBy => transaction.payeeStartRequested

\* The steps of user u's handlers that end in a broadcast or in its catch.
Broadcasting(u) ==
    \/ StartWrite(u)
    \/ StartFail(u)
    \/ \E body \in PlainBodies : PostConversationMessage(u, 1, body)
    \/ \E body \in PlainBodies : PostTaskMessage(u, body)

\* C29: when a handler sends a new_message event the message is stored, when
\* it sends a transaction_start_request event the requester's start flag is
\* stored true, and when it answers 500 it sends no event.
C29_StoreBeforeBroadcast ==
    [][\A u \in Users :
          Broadcasting(u) =>
             /\ EventStored'
             /\ http'.code = HttpServerError => sent' = NoEvent]_vars

====
